---- MODULE Spec2Model ----
(***************************************************************************)
(* A model of ragcourse: the recursive crawler ArticleDB.add_url over the *)
(* FTS5 article table, the search ArticleDB.find_articles, and the        *)
(* retrieval-augmented generation loop rag.                                *)
(***************************************************************************)
EXTENDS Integers, Sequences, FiniteSets, TLC

(***************************************************************************)
(* Bounds of the model.                                                    *)
(***************************************************************************)
MaxBudget == 2
MaxNegBudget == 1
MaxCalls == 2
\* fetches and summarizations that fail during one top-level call
MaxFaults == 1

(***************************************************************************)
(* URLs are strings, modelled as sequences of tokens; the token "hmc.edu" *)
(* stands for that run of characters wherever it occurs in the string.    *)
(***************************************************************************)
UrlA == <<"www.", "hmc.edu", "/", "a">>
UrlB == <<"www.", "hmc.edu", "/", "b">>
UrlC == <<"cs.", "hmc.edu", "/">>
UrlX == <<"evil.com", "/", "x">>
UrlY == <<"evil.com", "/", "hmc.edu">>
URLS == {UrlA, UrlB, UrlC, UrlX, UrlY}
\* the URLs given to top-level calls of add_url (__main__ --url, line 457)
Seeds == {UrlA, UrlY}

\* add_url line 364: the Python test  "hmc.edu" in url  (substring search)
ContainsHmc(url) == \E k \in 1..Len(url) : url[k] = "hmc.edu"

\* add_url line 403: the ingestion threshold on len(data['content'])
SizeThreshold == 30000

\* the texts summarize_text may return (run_llm line 53)
Summaries == {"summary"}

(***************************************************************************)
(* The pages fetch_page_data finds (lines 203-210): for each URL the list *)
(* of its links in document order (line 198) and the length of its        *)
(* extracted content (lines 191-195).                                     *)
(***************************************************************************)
Page(links, content) == [links |-> links, content |-> content]
NoPages == [u \in URLS |-> Page(<<>>, SizeThreshold - 1)]
Webs ==
  { [NoPages EXCEPT ![UrlA] = Page(<<UrlB, UrlC>>, SizeThreshold - 1),
                    ![UrlB] = Page(<<UrlC>>, SizeThreshold),
                    ![UrlC] = Page(<<UrlA>>, SizeThreshold - 1)],
    [NoPages EXCEPT ![UrlA] = Page(<<UrlC, UrlB>>, SizeThreshold),
                    ![UrlB] = Page(<<UrlC, UrlC>>, SizeThreshold + 1)],
    [NoPages EXCEPT ![UrlA] = Page(<<UrlA, UrlX, UrlB>>, SizeThreshold - 1),
                    ![UrlB] = Page(<<UrlY>>, SizeThreshold - 1),
                    ![UrlY] = Page(<<UrlC>>, SizeThreshold - 1),
                    ![UrlX] = Page(<<UrlC>>, SizeThreshold - 1)],
    [NoPages EXCEPT ![UrlA] = Page(<<UrlB>>, SizeThreshold + 1),
                    ![UrlB] = Page(<<UrlA, UrlC>>, SizeThreshold - 1),
                    ![UrlC] = Page(<<UrlB>>, SizeThreshold)] }

VARIABLES
  web,      \* the link lists of the pages on the network
  rows,     \* the articles table, in rowid order
  stack,    \* the active invocations of add_url, innermost last
  log,      \* the failures logged since the top-level add_url call began, in order
  ncalls,   \* number of top-level add_url calls made so far
  args,     \* arguments of the current or last top-level add_url call
  raised,   \* an exception has left the top-level add_url call
  other,    \* the active invocations of add_url in a second process that has
            \* the same database file open, while that process is not running
  idx,      \* the articles table as find_articles searches it
  rg,       \* the invocation of rag: its position and locals
  fa,       \* the invocation of find_articles
  ek,       \* the invocation of extract_keywords
  rs        \* the invocation of recursive_summary

crawlvars == <<web, rows, stack, log, ncalls, args, raised, other>>
ragvars == <<idx, rg, fa, ek, rs>>
vars == <<web, rows, stack, log, ncalls, args, raised, other, idx, rg, fa, ek, rs>>

(***************************************************************************)
(* The articles table (lines 294-304) and the queries add_url makes.      *)
(***************************************************************************)
Row(url, content, summary, depth) ==
  [url |-> url, content |-> content, summary |-> summary, depth |-> depth]

\* the duplicate check left out
is_dupe_Never(r, url) == FALSE

\* lines 368-374: SELECT count(*) FROM articles WHERE url=?  ...  row[0] > 0
is_dupe(r, url) == \E k \in 1..Len(r) : r[k].url = url

\* fetchone() of a SELECT ... WHERE url=? : the matching row of least rowid
FirstRow(r, url) == CHOOSE k \in 1..Len(r) :
                      /\ r[k].url = url
                      /\ \A j \in 1..(k - 1) : r[j].url # url

\* lines 377-382: SELECT depth FROM articles WHERE url=? ; fetchone()
StoredDepth(r, url) == r[FirstRow(r, url)].depth

\* the re-crawl test with >= for > : an equal budget crawls the page again
NeedsUpgrade_AtLeast(recursive_depth, depth) == recursive_depth >= depth

\* the re-crawl test with != for > : a smaller budget rewrites the depth
NeedsUpgrade_Differs(recursive_depth, depth) == recursive_depth # depth

\* line 383: the re-crawl test
NeedsUpgrade(recursive_depth, depth) == recursive_depth > depth

\* the depth upgrade never written
UpdateDepth_Skip(r, url, recursive_depth) == r

\* the upgrade rewriting the summary of the row as well
UpdateDepth_Resummarize(r, url, recursive_depth) ==
  [r EXCEPT ![FirstRow(r, url)].depth = recursive_depth,
            ![FirstRow(r, url)].summary = "again"]

\* lines 389-397: UPDATE articles SET depth = ? WHERE rowid = ?
UpdateDepth(r, url, recursive_depth) ==
  [r EXCEPT ![FirstRow(r, url)].depth = recursive_depth]

\* lines 418-432: INSERT INTO articles(...) VALUES (...)
InsertRow(r, url, content, summary, recursive_depth) ==
  Append(r, Row(url, content, summary, recursive_depth))

\* what a caller reads of a URL before a call: <<depth>>, or <<>> if not stored
depthOf(r, url) == IF is_dupe(r, url) THEN <<StoredDepth(r, url)>> ELSE <<>>

\* __len__ lines 438-448: SELECT count(*) FROM articles WHERE content IS NOT NULL
DbLen(r) == Len(r)

(***************************************************************************)
(* Invocations of add_url.                                                 *)
(***************************************************************************)
Frame(url, recursive_depth, allow_dupes) ==
  [url |-> url, recursive_depth |-> recursive_depth, allow_dupes |-> allow_dupes,
   pc |-> "enter", links |-> <<>>, content |-> 0, summary |-> "", i |-> 0]

Top == stack[Len(stack)]
Pop(stk) == SubSeq(stk, 1, Len(stk) - 1)
SetTop(stk, f) == [stk EXCEPT ![Len(stk)] = f]
Running == stack # <<>>
TopPc == IF Running THEN Top.pc ELSE "idle"

\* the size gate off by one
TooLong_Late(content) == content > SizeThreshold + 1

\* line 403: the size gate
TooLong(content) == content > SizeThreshold

\* lines 405, 413, 434: the fan-out test
FansOut(recursive_depth) == recursive_depth > 0

\* add_url without its decorator: the exception unwinds every invocation
no_catch_errors(stk) == [stack |-> <<>>, raised |-> TRUE]

\* _catch_errors lines 119-123: the exception raised in the innermost
\* invocation is logged by that invocation's wrapper, which then returns
_catch_errors(stk) == [stack |-> Pop(stk), raised |-> FALSE]

\* the failures of fetches and summarizations logged so far
Faults(l) == Cardinality({k \in 1..Len(l) : l[k] # "too_long"})

\* __main__ line 470 (and any other caller): a top-level call of add_url
Call(url, n, dupes) ==
  /\ ~Running
  /\ ~raised
  /\ ncalls < MaxCalls
  /\ stack' = <<Frame(url, n, dupes)>>
  /\ args' = [url |-> url, recursive_depth |-> n, allow_dupes |-> dupes,
              len |-> DbLen(rows), depth |-> depthOf(rows, url)]
  /\ ncalls' = ncalls + 1
  /\ log' = <<>>
  /\ UNCHANGED <<web, rows, raised, other, ragvars>>

\* lines 364-383 and 398: domain gate, duplicate check, depth comparison
Enter ==
  /\ TopPc = "enter"
  /\ IF ~ContainsHmc(Top.url)
       THEN /\ log' = log
            /\ stack' = Pop(stack)
       ELSE IF ~Top.allow_dupes /\ is_dupe(rows, Top.url)
         THEN /\ log' = log
              /\ IF NeedsUpgrade(Top.recursive_depth, StoredDepth(rows, Top.url))
                   THEN stack' = SetTop(stack, [Top EXCEPT !.pc = "refetch"])
                   ELSE stack' = Pop(stack)
         ELSE /\ log' = log
              /\ stack' = SetTop(stack, [Top EXCEPT !.pc = "fetch"])
  /\ UNCHANGED <<web, rows, ncalls, args, raised, other, ragvars>>

\* fetch_page_data returned None (lines 156-172), at line 384 or line 399
FetchNone ==
  /\ TopPc \in {"refetch", "fetch"}
  /\ Faults(log) < MaxFaults
  /\ log' = Append(log, "fetch_failed")
  /\ stack' = Pop(stack)
  /\ UNCHANGED <<web, rows, ncalls, args, raised, other, ragvars>>

\* fetch_page_data raised (lines 175-198 are outside its try blocks)
FetchRaise ==
  /\ TopPc \in {"refetch", "fetch"}
  /\ Faults(log) < MaxFaults
  /\ log' = Append(log, "error")
  /\ stack' = _catch_errors(stack).stack
  /\ raised' = _catch_errors(stack).raised
  /\ UNCHANGED <<web, rows, ncalls, args, other, ragvars>>

\* lines 384-387: the page of a stored URL fetched again for its links
Refetch ==
  /\ TopPc = "refetch"
  /\ stack' = SetTop(stack, [Top EXCEPT !.pc = "uploop", !.links = web[Top.url].links,
                                      !.i = 1])
  /\ UNCHANGED <<web, rows, log, ncalls, args, raised, other, ragvars>>

\* a nested visit given the budget of its parent
ChildBudget_Same(recursive_depth) == recursive_depth

\* lines 388, 407, 415, 436: the budget of a nested visit
ChildBudget(recursive_depth) == recursive_depth - 1

\* lines 387-388: one iteration of the fan-out of the upgrade path
UpLoop ==
  /\ TopPc = "uploop"
  /\ IF Top.i <= Len(Top.links)
       THEN stack' = Append(SetTop(stack, [Top EXCEPT !.i = Top.i + 1]),
                            Frame(Top.links[Top.i], ChildBudget(Top.recursive_depth), FALSE))
       ELSE stack' = SetTop(stack, [Top EXCEPT !.pc = "update"])
  /\ UNCHANGED <<web, rows, log, ncalls, args, raised, other, ragvars>>

\* lines 389-398: the depth upgrade, written after the fan-out
Update ==
  /\ TopPc = "update"
  /\ rows' = UpdateDepth(rows, Top.url, Top.recursive_depth)
  /\ stack' = Pop(stack)
  /\ UNCHANGED <<web, log, ncalls, args, raised, other, ragvars>>

\* lines 399-408: fetch, then the size gate
Fetch ==
  /\ TopPc = "fetch"
  /\ LET data == web[Top.url]
     IN IF TooLong(data.content)
          THEN /\ log' = Append(log, "too_long")
               /\ IF FansOut(Top.recursive_depth)
                    THEN stack' = SetTop(stack, [Top EXCEPT !.pc = "loop", !.links = data.links,
                                                             !.content = data.content, !.i = 1])
                    ELSE stack' = Pop(stack)
          ELSE /\ log' = log
               /\ stack' = SetTop(stack, [Top EXCEPT !.pc = "summarize", !.links = data.links,
                                                      !.content = data.content])
  /\ UNCHANGED <<web, rows, ncalls, args, raised, other, ragvars>>

\* line 410: summarize_text returned a summary
SummarizeOk(summary) ==
  /\ TopPc = "summarize"
  /\ stack' = SetTop(stack, [Top EXCEPT !.pc = "insert", !.summary = summary])
  /\ UNCHANGED <<web, rows, log, ncalls, args, raised, other, ragvars>>

\* lines 410-411: summarize_text raised, control enters the except clause
SummarizeFail ==
  /\ TopPc = "summarize"
  /\ Faults(log) < MaxFaults
  /\ stack' = SetTop(stack, [Top EXCEPT !.pc = "except"])
  /\ UNCHANGED <<web, rows, log, ncalls, args, raised, other, ragvars>>

\* lines 412-416: the except clause of the summarization
Except ==
  /\ TopPc = "except"
  /\ log' = Append(log, "summarize_failed")
  /\ IF FansOut(Top.recursive_depth)
       THEN stack' = SetTop(stack, [Top EXCEPT !.pc = "loop", !.i = 1])
       ELSE stack' = Pop(stack)
  /\ UNCHANGED <<web, rows, ncalls, args, raised, other, ragvars>>

\* lines 418-436: the row is inserted, then the fan-out test
Insert ==
  /\ TopPc = "insert"
  /\ rows' = InsertRow(rows, Top.url, Top.content, Top.summary, Top.recursive_depth)
  /\ IF FansOut(Top.recursive_depth)
       THEN stack' = SetTop(stack, [Top EXCEPT !.pc = "loop", !.i = 1])
       ELSE stack' = Pop(stack)
  /\ UNCHANGED <<web, log, ncalls, args, raised, other, ragvars>>

\* lines 406-407, 414-415, 435-436: one iteration of a fan-out loop
Loop ==
  /\ TopPc = "loop"
  /\ IF Top.i <= Len(Top.links)
       THEN stack' = Append(SetTop(stack, [Top EXCEPT !.i = Top.i + 1]),
                            Frame(Top.links[Top.i], ChildBudget(Top.recursive_depth), FALSE))
       ELSE stack' = Pop(stack)
  /\ UNCHANGED <<web, rows, log, ncalls, args, raised, other, ragvars>>

(***************************************************************************)
(* Texts.  A text is the sequence of the lengths of its lines, the lines   *)
(* being what text.split('\n') returns: "" is <<0>>, "\n\n" is <<0, 0, 0>>.*)
(***************************************************************************)
MaxArticles == 2
MaxLines == 7

RECURSIVE SumSeq(_)
SumSeq(q) == IF q = <<>> THEN 0 ELSE q[1] + SumSeq(Tail(q))

\* len(text): the characters of the lines and the newlines between them
TextLen(t) == SumSeq(t) + Len(t) - 1

\* string concatenation  t + x
Cat(t, x) == SubSeq(t, 1, Len(t) - 1) \o <<t[Len(t)] + x[1]>> \o Tail(x)

EmptyText == <<0>>
Str(n) == <<n>>

\* text_split lines 137-148; sizeLimit2 is twice sizeLimit, which rag passes
\* as len(sources)/2 (line 242)
RECURSIVE text_split_from(_, _, _, _, _)
text_split_from(textList, sizeLimit2, i, tempList, wordCounter) ==
  IF i > Len(textList) THEN tempList
  ELSE LET length == textList[i]
       IN IF 2 * (wordCounter + length) < sizeLimit2
            THEN text_split_from(textList, sizeLimit2, i + 1,
                   [tempList EXCEPT ![Len(tempList)] = Cat(@, <<0, length>>)],
                   wordCounter + length)
            ELSE text_split_from(textList, sizeLimit2, i + 1,
                   Append(tempList, Str(length)), length)

text_split(text, sizeLimit2) ==
  text_split_from(text, sizeLimit2, 2, <<Str(text[1])>>, text[1])

(***************************************************************************)
(* The generation service (run_llm lines 35-53) returns a text or raises.  *)
(***************************************************************************)
\* extract_keywords line 79: the ceiling on len(key.split(" "))
KeywordCeiling == 10
Verbose == [k \in 1..KeywordCeiling |-> "biology"]
\* keyword strings run_llm may return, as their lists key.split(" ")
KeyTexts == {<<"biology">>, <<"history">>, <<"CSCI-070">>, Verbose}
\* summaries run_llm may return to recursive_summary
SummaryTexts == {Str(1), Str(4)}

(***************************************************************************)
(* The FTS5 index (lines 294-304, 322-328).                                *)
(***************************************************************************)
\* find_articles line 314: limit=5, timebias_alpha=1
Limit == 5
timebias_alpha == 1

Article(relevance_score, days, content) ==
  [words |-> {"biology"}, relevance_score |-> relevance_score, days |-> days,
   content |-> content]
ArticleKinds == {Article(r, d, <<3, 3>>) : r \in {0 - 3, 0 - 2}, d \in {0, 10}}
Corpora == UNION {[1..n -> ArticleKinds] : n \in 0..MaxArticles}

\* line 335-336: FTS5 rejects the MATCH expression (sqlite3.OperationalError)
Rejects(query) == \E k \in 1..Len(query) : query[k] = "CSCI-070"

\* line 325: WHERE articles MATCH ? : every term of the query occurs in the row
Matches(article, query) == \A k \in 1..Len(query) : query[k] \in article.words

\* lines 323-327 and 341-342: the matching rows in ascending order of
\* relevance_score (then of rowid), at most limit of them
RECURSIVE Ranked(_, _)
Ranked(table, ids) ==
  IF ids = {} THEN <<>>
  ELSE LET best == CHOOSE k \in ids : \A j \in ids :
                     \/ table[k].relevance_score < table[j].relevance_score
                     \/ /\ table[k].relevance_score = table[j].relevance_score
                        /\ k <= j
       IN <<[rowid |-> best, relevance_score |-> table[best].relevance_score,
             days |-> table[best].days, content |-> table[best].content]>>
          \o Ranked(table, ids \ {best})

Search(table, query, limit) ==
  LET all == Ranked(table, {k \in 1..Len(table) : Matches(table[k], query)})
  IN SubSeq(all, 1, IF Len(all) < limit THEN Len(all) ELSE limit)

\* rag lines 228-230: the context block built from the articles
RECURSIVE Sources(_, _)
Sources(articles, i) ==
  IF i > Len(articles) THEN EmptyText
  ELSE Cat(Cat(Cat(Str(18), articles[i].content), <<0, 0>>), Sources(articles, i + 1))

(***************************************************************************)
(* rag and the functions it calls.                                         *)
(***************************************************************************)
RgIdle == [pc |-> "idle", text |-> EmptyText, i |-> 0, keywords |-> <<>>,
           articles |-> <<>>, sources |-> EmptyText, extractions |-> 0, searches |-> 0]
FaIdle == [pc |-> "idle", query |-> <<>>, keywords_text |-> FALSE, caller |-> "none",
           ret |-> <<>>, executions |-> 0]
EkIdle == [pc |-> "idle", key |-> <<>>, caller |-> "none", seed |-> <<>>, calls |-> 0]
RsIdle == [pc |-> "idle", text |-> EmptyText, sizeLimit2 |-> 0, textList |-> <<>>,
           k |-> 0, newText |-> EmptyText, caller |-> "none"]

\* no call of rag, find_articles, extract_keywords or recursive_summary is running
Quiet == /\ rg.pc \in {"idle", "done", "raised"}
         /\ fa.pc \in {"idle", "returned", "raised"}
         /\ ek.pc \in {"idle", "returned", "raised"}
         /\ rs.pc \in {"idle", "returned", "raised"}

\* the questions rag is asked
Questions == {Str(5)}
\* texts and limits of the direct calls of recursive_summary
DirectTexts == {<<1, 1>>, <<2, 2, 2>>}
SizeLimits == {2, 7, 10}
\* the seed argument of extract_keywords: <<>> is None, <<n>> the integer n
SeedArgs == {<<>>, <<0>>, <<7>>}
\* calls of run_llm made by one call of extract_keywords
MaxRuns == 2
\* executions of the query (line 335) by one call of find_articles
MaxExecutes == 2

\* rag line 223: range(3)
Attempts == 3

\* the retrieval loop never left early
Found_Never(articles) == FALSE

\* rag line 226: len(articles) > 0
Found(articles) == Len(articles) > 0

\* the test  if seed:  for  if seed != None
SeedGiven_Truthy(seed) == seed # <<>> /\ seed[1] # 0

\* extract_keywords line 74: seed != None
SeedGiven(seed) == seed # <<>>

\* the whole length passed as the limit
ContextLimit2_Whole(sources) == 2 * TextLen(sources)

\* rag line 242: the sizeLimit len(sources)/2, doubled
ContextLimit2(sources) == TextLen(sources)

\* the loop left two characters early
OverLimit_Early(text, sizeLimit2) == 2 * TextLen(text) > sizeLimit2 + 4

\* recursive_summary line 91: len(text) > sizeLimit
OverLimit(text, sizeLimit2) == 2 * TextLen(text) > sizeLimit2

\* rag lines 221-223: a call of rag; keywords_text is the question if None
RagCall(text) ==
  /\ Quiet
  /\ rg' = [RgIdle EXCEPT !.pc = "extract", !.text = text]
  /\ fa' = FaIdle /\ ek' = EkIdle /\ rs' = RsIdle
  /\ UNCHANGED <<idx, crawlvars>>

\* rag line 224: the call of extract_keywords
RagExtract ==
  /\ rg.pc = "extract"
  /\ rg' = [rg EXCEPT !.pc = "in_extract", !.extractions = @ + 1]
  /\ ek' = [EkIdle EXCEPT !.pc = "llm", !.caller = "rag"]
  /\ UNCHANGED <<idx, fa, rs, crawlvars>>

\* a direct call of extract_keywords (doctests lines 67-70), with or without seed
ExtractCall(seed) ==
  /\ Quiet
  /\ ek' = [EkIdle EXCEPT !.pc = "llm", !.caller = "top", !.seed = seed]
  /\ rg' = RgIdle /\ fa' = FaIdle /\ rs' = RsIdle
  /\ UNCHANGED <<idx, crawlvars>>

\* extract_keywords lines 73-84: run_llm returned key
EkRun(key) ==
  /\ ek.pc = "llm"
  /\ ek.calls < MaxRuns
  /\ IF SeedGiven(ek.seed) \/ Len(key) < KeywordCeiling
       THEN /\ ek' = [EkIdle EXCEPT !.pc = "returned", !.key = key,
                                    !.caller = ek.caller, !.seed = ek.seed]
            /\ IF ek.caller = "rag"
                 THEN /\ rg' = [rg EXCEPT !.pc = "search", !.keywords = key]
                      /\ fa' = fa
                 ELSE IF ek.caller = "find"
                   THEN /\ fa' = [fa EXCEPT !.pc = "execute", !.query = key]
                        /\ rg' = rg
                   ELSE UNCHANGED <<rg, fa>>
       ELSE /\ ek' = [ek EXCEPT !.key = key, !.calls = @ + 1]
            /\ UNCHANGED <<rg, fa>>
  /\ UNCHANGED <<idx, rs, crawlvars>>

\* extract_keywords lines 73, 82: run_llm raised; nothing between it and the
\* caller of rag (lines 224, 338) or of find_articles (line 338) catches it
EkRaise ==
  /\ ek.pc = "llm"
  /\ ek' = [EkIdle EXCEPT !.pc = "raised"]
  /\ IF ek.caller = "rag"
       THEN /\ rg' = [RgIdle EXCEPT !.pc = "raised"]
            /\ fa' = fa
       ELSE IF ek.caller = "find"
         THEN /\ fa' = [FaIdle EXCEPT !.pc = "raised", !.caller = fa.caller]
              /\ rg' = IF fa.caller = "rag" THEN [RgIdle EXCEPT !.pc = "raised"] ELSE rg
         ELSE UNCHANGED <<rg, fa>>
  /\ UNCHANGED <<idx, rs, crawlvars>>

\* rag line 225: the call of find_articles, keywords_text given
RagSearch ==
  /\ rg.pc = "search"
  /\ rg' = [rg EXCEPT !.pc = "in_search", !.searches = @ + 1]
  /\ fa' = [pc |-> "execute", query |-> rg.keywords, keywords_text |-> TRUE,
            caller |-> "rag", ret |-> <<>>, executions |-> 0]
  /\ UNCHANGED <<idx, ek, rs, crawlvars>>

\* a direct call of find_articles (class docstring line 261), with or without
\* keywords_text
FindCall(query, keywords_text) ==
  /\ Quiet
  /\ fa' = [pc |-> "execute", query |-> query, keywords_text |-> keywords_text,
            caller |-> "top", ret |-> <<>>, executions |-> 0]
  /\ rg' = RgIdle /\ ek' = EkIdle /\ rs' = RsIdle
  /\ UNCHANGED <<idx, crawlvars>>

\* the recovery query extracted even when keywords_text is None
Recovers_Always(keywords_text) == TRUE

\* find_articles line 337: keywords_text is not None
Recovers(keywords_text) == keywords_text

\* find_articles lines 333-342: one execution of the query; and, when it
\* returns to rag, lines 225-230
FaExecute ==
  /\ fa.pc = "execute"
  /\ fa.executions < MaxExecutes
  /\ IF Rejects(fa.query)
       THEN IF Recovers(fa.keywords_text)
              THEN /\ fa' = [fa EXCEPT !.pc = "recover", !.executions = @ + 1]
                   /\ ek' = [EkIdle EXCEPT !.pc = "llm", !.caller = "find"]
                   /\ rg' = rg
              ELSE /\ fa' = [fa EXCEPT !.executions = @ + 1]
                   /\ UNCHANGED <<ek, rg>>
       ELSE LET ret == Search(idx, fa.query, Limit)
            IN /\ fa' = [fa EXCEPT !.pc = "returned", !.ret = ret, !.executions = 0]
               /\ ek' = ek
               /\ IF fa.caller = "rag"
                    THEN IF Found(ret) \/ rg.i = Attempts - 1
                           THEN rg' = [rg EXCEPT !.pc = "answer", !.articles = ret,
                                                 !.sources = Sources(ret, 1)]
                           ELSE rg' = [rg EXCEPT !.pc = "extract", !.articles = ret,
                                                 !.i = rg.i + 1]
                    ELSE rg' = rg
  /\ UNCHANGED <<idx, rs, crawlvars>>

\* rag lines 236-240: the answer call returned
RagAnswer ==
  /\ rg.pc = "answer"
  /\ rg' = [RgIdle EXCEPT !.pc = "done"]
  /\ UNCHANGED <<idx, fa, ek, rs, crawlvars>>

\* rag lines 241-242: the answer call raised; recursive_summary is called
RagAnswerFail ==
  /\ rg.pc = "answer"
  /\ rg' = [rg EXCEPT !.pc = "in_summary"]
  /\ rs' = [RsIdle EXCEPT !.pc = "while", !.text = rg.sources, !.caller = "rag",
                          !.sizeLimit2 = ContextLimit2(rg.sources)]
  /\ UNCHANGED <<idx, fa, ek, crawlvars>>

\* a direct call of recursive_summary(text, sizeLimit)
SummaryCall(text, sizeLimit) ==
  /\ Quiet
  /\ rs' = [RsIdle EXCEPT !.pc = "while", !.text = text, !.caller = "top",
                          !.sizeLimit2 = 2 * sizeLimit]
  /\ rg' = RgIdle /\ fa' = FaIdle /\ ek' = EkIdle
  /\ UNCHANGED <<idx, crawlvars>>

\* recursive_summary lines 91-94 and 98: the loop test
RsWhile ==
  /\ rs.pc = "while"
  /\ IF OverLimit(rs.text, rs.sizeLimit2)
       THEN /\ rs' = [rs EXCEPT !.pc = "for", !.k = 1, !.newText = EmptyText,
                                !.textList = text_split(rs.text, rs.sizeLimit2)]
            /\ rg' = rg
       ELSE /\ rs' = [RsIdle EXCEPT !.pc = "returned", !.text = rs.text,
                                    !.sizeLimit2 = rs.sizeLimit2, !.caller = rs.caller]
            /\ rg' = IF rs.caller = "rag"
                       THEN [rg EXCEPT !.pc = "answer", !.sources = rs.text]
                       ELSE rg
  /\ UNCHANGED <<idx, fa, ek, crawlvars>>

\* recursive_summary lines 95-97: run_llm returned the summary of a paragraph
RsSummarize(summary) ==
  /\ rs.pc = "for"
  /\ Len(rs.newText) < MaxLines
  /\ LET newText == Cat(Cat(rs.newText, summary), <<0, 0, 0>>)
     IN IF rs.k = Len(rs.textList)
          THEN rs' = [rs EXCEPT !.pc = "while", !.text = newText, !.newText = newText]
          ELSE rs' = [rs EXCEPT !.k = rs.k + 1, !.newText = newText]
  /\ UNCHANGED <<idx, rg, fa, ek, crawlvars>>

\* recursive_summary line 96: run_llm raised, inside the except clause of rag
RsRaise ==
  /\ rs.pc = "for"
  /\ rs' = [RsIdle EXCEPT !.pc = "raised", !.caller = rs.caller]
  /\ rg' = IF rs.caller = "rag" THEN [RgIdle EXCEPT !.pc = "raised"] ELSE rg
  /\ UNCHANGED <<idx, fa, ek, crawlvars>>

Init ==
  /\ web \in Webs
  /\ rows = <<>>
  /\ stack = <<>>
  /\ log = <<>>
  /\ ncalls = 0
  /\ args = [url |-> UrlA, recursive_depth |-> 0, allow_dupes |-> FALSE,
             len |-> 0, depth |-> <<>>]
  /\ raised = FALSE
  /\ other = <<>>
  /\ idx = <<>>
  /\ rg = RgIdle /\ fa = FaIdle /\ ek = EkIdle /\ rs = RsIdle

Next ==
  \/ \E url \in Seeds, n \in (0 - MaxNegBudget)..MaxBudget, dupes \in BOOLEAN : Call(url, n, dupes)
  \/ Enter
  \/ FetchNone
  \/ FetchRaise
  \/ Refetch
  \/ UpLoop
  \/ Update
  \/ Fetch
  \/ \E summary \in Summaries : SummarizeOk(summary)
  \/ SummarizeFail
  \/ Except
  \/ Insert
  \/ Loop

Spec == Init /\ [][Next]_vars

\* the steps of the running invocations of add_url
Visit ==
  \/ Enter
  \/ FetchNone
  \/ FetchRaise
  \/ Refetch
  \/ UpLoop
  \/ Update
  \/ Fetch
  \/ \E summary \in Summaries : SummarizeOk(summary)
  \/ SummarizeFail
  \/ Except
  \/ Insert
  \/ Loop

\* the row the INSERT of lines 418-432 makes for url at budget depth
Stored(w, url, depth) == Row(url, w[url].content, "summary", depth)

\* stores that earlier calls of add_url left: empty, one page, a page stored
\* with a negative budget, every page of the domain (with negative budgets, and
\* in another order with budget 0), and a page stored twice (allow_dupes=True)
Stores(w) ==
  { s \in { <<>>,
            <<Stored(w, UrlA, 0)>>,
            <<Stored(w, UrlA, 0 - 1)>>,
            <<Stored(w, UrlA, 0 - 1), Stored(w, UrlB, 0 - 1), Stored(w, UrlC, 0 - 1)>>,
            <<Stored(w, UrlC, 0), Stored(w, UrlB, 0), Stored(w, UrlA, 0)>>,
            <<Stored(w, UrlA, 0), Stored(w, UrlA, 1)>> } :
      \A k \in 1..Len(s) : ~TooLong(s[k].content) }

\* the last call of a session starts on any of these stores
InitLive ==
  /\ web \in Webs
  /\ rows \in Stores(web)
  /\ stack = <<>>
  /\ other = <<>>
  /\ log = <<>>
  /\ ncalls = MaxCalls - 1
  /\ args = [url |-> UrlA, recursive_depth |-> 0, allow_dupes |-> FALSE,
             len |-> 0, depth |-> <<>>]
  /\ raised = FALSE
  /\ idx = <<>>
  /\ rg = RgIdle /\ fa = FaIdle /\ ek = EkIdle /\ rs = RsIdle

\* the crawler when every statement of a running invocation is eventually
\* executed: every fetch and every summarization returns or fails
SpecLive == InitLive /\ [][Next]_vars /\ WF_vars(Visit)

(***************************************************************************)
(* Two ingestion processes on one database file.  Each SQL statement of    *)
(* add_url is executed and committed on its own (lines 372, 381, 396-397,  *)
(* 423-432), so the other process may take steps between any two actions   *)
(* of the running one.                                                     *)
(***************************************************************************)
\* the operating system suspends the running process and resumes the other
Switch ==
  /\ ~raised
  /\ stack # other
  /\ stack' = other
  /\ other' = stack
  /\ UNCHANGED <<web, rows, log, ncalls, args, raised, ragvars>>

\* the store after add_url(UrlA, model, recursive_depth=0) on the empty store
StoreOf(w) == IF TooLong(w[UrlA].content)
                THEN <<>>
                ELSE <<Row(UrlA, w[UrlA].content, "summary", 0)>>

InitConc ==
  /\ web \in Webs
  /\ rows = StoreOf(web)
  /\ stack = <<>>
  /\ other = <<>>
  /\ log = <<>>
  /\ ncalls = 0
  /\ args = [url |-> UrlA, recursive_depth |-> 0, allow_dupes |-> FALSE,
             len |-> 0, depth |-> <<>>]
  /\ raised = FALSE
  /\ idx = <<>>
  /\ rg = RgIdle /\ fa = FaIdle /\ ek = EkIdle /\ rs = RsIdle

\* each process runs __main__ (line 470), which passes allow_dupes=False
NextConc ==
  \/ \E url \in Seeds, n \in (0 - MaxNegBudget)..MaxBudget : Call(url, n, FALSE)
  \/ Enter
  \/ FetchNone
  \/ FetchRaise
  \/ Refetch
  \/ UpLoop
  \/ Update
  \/ Fetch
  \/ \E summary \in Summaries : SummarizeOk(summary)
  \/ SummarizeFail
  \/ Except
  \/ Insert
  \/ Loop
  \/ Switch

SpecConc == InitConc /\ [][NextConc]_vars

InitRag ==
  /\ idx \in Corpora
  /\ rg = RgIdle /\ fa = FaIdle /\ ek = EkIdle /\ rs = RsIdle
  /\ web = NoPages
  /\ rows = <<>>
  /\ stack = <<>>
  /\ log = <<>>
  /\ ncalls = 0
  /\ args = [url |-> UrlA, recursive_depth |-> 0, allow_dupes |-> FALSE,
             len |-> 0, depth |-> <<>>]
  /\ raised = FALSE
  /\ other = <<>>

NextRag ==
  \/ \E text \in Questions : RagCall(text)
  \/ RagExtract
  \/ \E seed \in SeedArgs : ExtractCall(seed)
  \/ \E key \in KeyTexts : EkRun(key)
  \/ EkRaise
  \/ RagSearch
  \/ \E query \in KeyTexts, keywords_text \in BOOLEAN : FindCall(query, keywords_text)
  \/ FaExecute
  \/ RagAnswer
  \/ RagAnswerFail
  \/ \E text \in DirectTexts, sizeLimit \in SizeLimits : SummaryCall(text, sizeLimit)
  \/ RsWhile
  \/ \E summary \in SummaryTexts : RsSummarize(summary)
  \/ RsRaise

SpecRag == InitRag /\ [][NextRag]_vars


(***************************************************************************)
(* Properties of the crawler.                                              *)
(***************************************************************************)
Frames == {stack[k] : k \in 1..Len(stack)}
Range(q) == {q[k] : k \in 1..Len(q)}
RowsOf(r, url) == {k \in 1..Len(r) : r[k].url = url}

\* the host of a URL: its tokens before the first "/"
HostLen(url) == (CHOOSE k \in 1..Len(url) :
                   url[k] = "/" /\ \A j \in 1..(k - 1) : url[j] # "/") - 1
\* the URL is in the allowed domain: its host is hmc.edu or ends in .hmc.edu
InAllowedDomain(url) == HostLen(url) >= 1 /\ url[HostLen(url)] = "hmc.edu"

\* C1: a visit, duplicates not allowed, of a stored URL with a budget equal to
\* or smaller than the stored depth returns at once and leaves every row (so
\* the row count and that row's depth) unchanged.
C1_Idempotent ==
  [][(/\ TopPc = "enter"
      /\ ~Top.allow_dupes
      /\ is_dupe(rows, Top.url)
      /\ Top.recursive_depth <= StoredDepth(rows, Top.url))
     => (rows' = rows /\ DbLen(rows') = DbLen(rows) /\ stack' = Pop(stack))]_vars

\* a second top-level call of a stored URL with a smaller budget has returned
C1_Witness ==
  /\ ~Running /\ ncalls = 2 /\ ~args.allow_dupes
  /\ args.depth # <<>>
  /\ args.recursive_depth <= args.depth[1]
  /\ StoredDepth(rows, args.url) = args.depth[1]
  /\ DbLen(rows) = args.len /\ DbLen(rows) = 1

\* C2: in every step the rows that exist keep their URL and their depth does
\* not decrease (rows are never removed).
C2_DepthMonotone ==
  [][/\ Len(rows') >= Len(rows)
     /\ \A k \in 1..Len(rows) : /\ rows'[k].url = rows[k].url
                                /\ rows'[k].depth >= rows[k].depth]_vars

\* a stored URL whose page links back to it through a cycle has been upgraded
C2_Witness ==
  /\ ~Running /\ ~args.allow_dupes
  /\ args.depth # <<>>
  /\ StoredDepth(rows, args.url) > args.depth[1]
  /\ args.recursive_depth = MaxBudget
  /\ \E u \in Range(web[args.url].links) : args.url \in Range(web[u].links)

\* C3: a URL outside the allowed domain is never fetched and never stored.
C3_DomainGate ==
  /\ \A k \in 1..Len(rows) : InAllowedDomain(rows[k].url)
  /\ \A f \in Frames : f.pc # "enter" => InAllowedDomain(f.url)

\* C4 as claimed: content at or above the threshold is never summarized or stored.
C4_AtOrAbove ==
  /\ \A k \in 1..Len(rows) : rows[k].content < SizeThreshold
  /\ \A f \in Frames : f.pc \in {"summarize", "insert", "except"} => f.content < SizeThreshold

\* C4 amended: content above the threshold (strictly more than 30,000
\* characters) is never summarized or stored; when the budget is > 0 the visit
\* of such a page goes on to its fan-out loop over all links of the page, and
\* every iteration of a fan-out loop visits the next link with budget - 1.
C4_SizeGate ==
  /\ [](/\ \A k \in 1..Len(rows) : rows[k].content <= SizeThreshold
        /\ \A f \in Frames : f.pc \in {"summarize", "insert", "except"}
                               => f.content <= SizeThreshold)
  /\ [][(TopPc = "fetch" /\ web[Top.url].content > SizeThreshold
           /\ Len(stack') >= Len(stack))
        => (/\ Top.recursive_depth > 0
            /\ stack' = SetTop(stack, [Top EXCEPT !.pc = "loop", !.i = 1,
                                         !.links = web[Top.url].links,
                                         !.content = web[Top.url].content])
            /\ rows' = rows)]_vars
  /\ [][(TopPc = "fetch" /\ web[Top.url].content > SizeThreshold
           /\ Top.recursive_depth > 0 /\ log' = Append(log, "too_long"))
        => Len(stack') = Len(stack)]_vars
  /\ [][(TopPc = "loop" /\ Top.i <= Len(Top.links))
        => stack' = Append(SetTop(stack, [Top EXCEPT !.i = Top.i + 1]),
                           Frame(Top.links[Top.i], Top.recursive_depth - 1, FALSE))]_vars
  /\ [][(TopPc = "loop" /\ Len(stack') < Len(stack)) => Top.i = Len(Top.links) + 1]_vars

\* the fan-out of a page over the threshold has visited all its links: the
\* page is not stored, the last of its links is
C4_Witness ==
  /\ ~Running /\ ncalls = 1 /\ args.recursive_depth = 1
  /\ web[args.url].content > SizeThreshold
  /\ log = <<"too_long">>
  /\ ~is_dupe(rows, args.url)
  /\ web[args.url].links # <<>>
  /\ \A u \in Range(web[args.url].links) : is_dupe(rows, u)

\* C5: a step of a visit made with duplicates not allowed never creates a
\* second row for a URL: if the URLs of the rows are distinct before the step,
\* they are distinct after it.
UniqueUrls(r) == \A j, k \in 1..Len(r) : r[j].url = r[k].url => j = k
C5_OneRowPerUrl ==
  [][(Running /\ ~Top.allow_dupes /\ UniqueUrls(rows)) => UniqueUrls(rows')]_vars

\* a page that links to itself has been crawled with a budget > 0
C5_Witness ==
  /\ ~Running /\ ~args.allow_dupes /\ args.depth = <<>>
  /\ args.recursive_depth >= 1
  /\ args.url \in Range(web[args.url].links)
  /\ Cardinality(RowsOf(rows, args.url)) = 1
  /\ DbLen(rows) >= 2

\* C6: URLs within k hops of the seed, following the links of in-domain pages
RECURSIVE Within(_, _, _)
Within(w, seed, k) ==
  IF k <= 0 THEN {seed}
  ELSE LET P == Within(w, seed, k - 1)
       IN P \cup {u \in URLS : \E p \in P : InAllowedDomain(p) /\ u \in Range(w[p].links)}
Dist(w, seed, u) == CHOOSE k \in 0..Cardinality(URLS) :
                      /\ u \in Within(w, seed, k)
                      /\ \A j \in 0..(k - 1) : u \notin Within(w, seed, j)

\* C6: when the first top-level call add_url(seed, n), n >= 0, on the empty
\* store has returned and no fetch failed, no page was over the size limit and
\* no summarization failed, and every URL met is either in the allowed domain
\* or skipped by the gate, then every in-domain URL within k <= n hops of the
\* seed has exactly one row, whose depth is n - k for the least such k.
C6_DepthIsBudgetLeft ==
  (/\ ~Running /\ ncalls = 1 /\ log = <<>>
   /\ args.recursive_depth >= 0
   /\ InAllowedDomain(args.url)
   /\ \A u \in Within(web, args.url, args.recursive_depth) :
        InAllowedDomain(u) \/ ~ContainsHmc(u))
  => \A u \in Within(web, args.url, args.recursive_depth) :
       InAllowedDomain(u) =>
         /\ Cardinality(RowsOf(rows, u)) = 1
         /\ StoredDepth(rows, u) = args.recursive_depth - Dist(web, args.url, u)

\* a URL first reached by the longer path (budget 0) ends with depth 1
C6_Witness ==
  /\ ~Running /\ ncalls = 1 /\ log = <<>>
  /\ args.url = UrlA /\ args.recursive_depth = 2
  /\ web[UrlA].links = <<UrlB, UrlC>> /\ web[UrlB].links = <<UrlC>>
  /\ is_dupe(rows, UrlC) /\ StoredDepth(rows, UrlC) = 1
  /\ is_dupe(rows, UrlB) /\ StoredDepth(rows, UrlB) = 1
  /\ StoredDepth(rows, UrlA) = 2

C7_TimeBiased ==
  fa.pc = "returned" =>
    \A j, k \in 1..Len(fa.ret) :
      j < k => fa.ret[j].relevance_score * timebias_alpha * (fa.ret[k].days + timebias_alpha)
                 <= fa.ret[k].relevance_score * timebias_alpha * (fa.ret[j].days + timebias_alpha)

\* C8: no failure of the generation service leaves rag: rag never raises.
C8_NoPropagation == rg.pc # "raised"

\* C10: find_articles never raises to its caller, and a query the index
\* rejects is always replaced by one freshly extracted from keywords_text.
C10_QueryRecovery ==
  /\ fa.pc # "raised"
  /\ (fa.pc = "execute" /\ Rejects(fa.query)) => fa.keywords_text
  /\ (fa.pc = "recover") => ek.pc = "llm"

(***************************************************************************)
(* Properties of recursive_summary, text_split and extract_keywords.       *)
(***************************************************************************)
\* C11: whenever recursive_summary(text, sizeLimit) has returned, the text it
\* returned is no longer than sizeLimit; and a call whose text is within the
\* limit at the loop test returns that text unchanged in that very step, so
\* without a step of the generation service.
C11_ResultBound ==
  /\ [](rs.pc = "returned" => 2 * TextLen(rs.text) <= rs.sizeLimit2)
  /\ [][(rs.pc = "while" /\ 2 * TextLen(rs.text) <= rs.sizeLimit2)
        => (rs'.pc = "returned" /\ rs'.text = rs.text /\ rs'.sizeLimit2 = rs.sizeLimit2)]_vars
  /\ [][(rs.pc # "while" /\ rs'.pc = "while")
        => (rs.pc = "for" \/ (Quiet /\ rs'.caller = "top") \/ rg.pc = "answer")]_vars

\* recursive_summary("ab\ncd\nef", 7) has returned the summary of its one
\* paragraph followed by a blank line
C11_Witness ==
  /\ rs.pc = "returned" /\ rs.caller = "top"
  /\ rs.sizeLimit2 = 14 /\ rs.text = <<1, 0, 0>>

\* C12: a full round of recursive_summary (split, summarize every paragraph,
\* concatenate) on a text that has a line break and whose lines are all shorter
\* than the limit yields a text no longer than the text before the round.
C12_RoundShrinks ==
  [][(/\ rs.pc = "for" /\ rs'.pc = "while"
      /\ Len(rs.text) >= 2
      /\ \A k \in 1..Len(rs.text) : 2 * rs.text[k] < rs.sizeLimit2)
     => TextLen(rs'.text) <= TextLen(rs.text)]_vars

\* the lines of the chunks, one chunk after the other
RECURSIVE LinesOf(_)
LinesOf(chunks) == IF chunks = <<>> THEN <<>> ELSE chunks[1] \o LinesOf(Tail(chunks))

\* C13 (b): the chunks are consecutive runs of the lines of the text, in order
C13_Runs == rs.pc = "for" => LinesOf(rs.textList) = rs.text

\* C13 (c): a chunk ends only where the next line, joined to it by a newline,
\* would take it over the limit
C13_Greedy ==
  rs.pc = "for" =>
    \A j \in 1..(Len(rs.textList) - 1) :
      2 * (TextLen(rs.textList[j]) + 1 + rs.textList[j + 1][1]) > rs.sizeLimit2

\* C13: for a text whose lines are each shorter than sizeLimit, every chunk of
\* text_split(text, sizeLimit) has fewer than sizeLimit characters, the
\* newlines that join its lines included; the chunks are consecutive runs of
\* the lines in order; and a new chunk is started only when the next line would
\* take the chunk over the limit.
C13_ChunkBound ==
  (rs.pc = "for" /\ \A k \in 1..Len(rs.text) : 2 * rs.text[k] < rs.sizeLimit2)
  => /\ \A j \in 1..Len(rs.textList) : 2 * TextLen(rs.textList[j]) < rs.sizeLimit2
     /\ C13_Runs
     /\ C13_Greedy

\* C14: rag itself calls extract_keywords (line 224) and find_articles (line
\* 225) at most 3 times each, one extraction before each search; when a search
\* returns, rag goes on to the generation with the articles found if there is
\* at least one, tries again if there is none and fewer than 3 searches were
\* made, and goes on with the empty list after the third; once at the
\* generation it extracts and searches no more.
C14_BoundedRetry ==
  /\ [](/\ rg.extractions <= 3 /\ rg.searches <= 3
        /\ rg.extractions = rg.searches + (IF rg.pc \in {"in_extract", "search"} THEN 1 ELSE 0)
        /\ rg.pc \in {"extract", "in_extract", "search", "in_search"} => rg.i = rg.searches
                                                                          - (IF rg.pc = "in_search" THEN 1 ELSE 0))
  /\ [][rg'.searches = rg.searches + 1
        => (rg.pc = "search" /\ rg.extractions = rg.searches + 1 /\ ek.pc = "returned"
            /\ fa'.query = ek.key)]_vars
  /\ [][(rg.pc = "in_search" /\ fa'.pc = "returned")
        => IF Len(fa'.ret) > 0
             THEN rg'.pc = "answer" /\ rg'.articles = fa'.ret
             ELSE IF rg.searches < 3
               THEN rg'.pc = "extract" /\ rg'.searches = rg.searches
               ELSE rg'.pc = "answer" /\ rg'.articles = <<>>]_vars
  /\ [][rg.pc \in {"answer", "in_summary"}
        => rg'.pc \in {"answer", "in_summary", "done", "raised"}]_vars

\* rag is at the generation with no article after three extractions and three
\* searches
C14_Witness ==
  /\ rg.pc = "answer" /\ rg.articles = <<>>
  /\ rg.extractions = 3 /\ rg.searches = 3
  /\ idx # <<>>

\* C15: a string extract_keywords returns when seed is None has fewer than 10
\* space-separated tokens, every output of 10 tokens or more being followed by
\* another call of the generation service; when a seed is given (0 included)
\* the output of the first call is returned, after exactly one call.
C15_KeywordCeiling ==
  /\ [](ek.pc = "returned" /\ ek.seed = <<>> => Len(ek.key) < 10)
  /\ [][(ek.pc = "llm" /\ ek'.pc = "returned")
        => /\ ek'.key \in KeyTexts /\ ek'.seed = ek.seed
           /\ ek.seed # <<>> => ek.calls = 0]_vars
  /\ [][(ek.pc = "llm" /\ ek'.pc = "llm" /\ ek' # ek)
        => (ek.seed = <<>> /\ Len(ek'.key) >= 10 /\ ek'.calls = ek.calls + 1)]_vars
  /\ [][(ek.pc # "llm" /\ ek'.pc = "llm") => ek'.calls = 0]_vars

\* extract_keywords(text, seed=0) has returned an output of 10 tokens
C15_Witness ==
  /\ ek.pc = "returned" /\ ek.caller = "top"
  /\ ek.seed = <<0>> /\ Len(ek.key) = 10

(***************************************************************************)
(* Further properties of the crawler.                                      *)
(***************************************************************************)
\* C16: an invocation of add_url whose budget is zero or negative never starts
\* a nested invocation (a visit of a link of its page), on any of its paths.
C16_NoFanOutWithoutBudget ==
  [][(Running /\ Len(stack') = Len(stack) + 1) => Top.recursive_depth > 0]_vars

\* the positions of an invocation on the upgrade path (lines 384-397)
UpgradePcs == {"refetch", "uploop", "update"}

\* C17: a visit, duplicates not allowed, of a stored URL with a budget larger
\* than the stored depth fetches the page again, visits each of its links with
\* budget - 1, and then writes the budget into the depth field of the row of
\* that URL, every other field of every row staying as it was; while the visit
\* lasts no invocation fetches that URL for storing or summarizes it, and the
\* number of rows of that URL does not change.
C17_UpgradeFrame ==
  /\ [][(/\ TopPc = "enter" /\ ContainsHmc(Top.url) /\ ~Top.allow_dupes
         /\ is_dupe(rows, Top.url)
         /\ Top.recursive_depth > StoredDepth(rows, Top.url))
        => (stack' = SetTop(stack, [Top EXCEPT !.pc = "refetch"]) /\ rows' = rows)]_vars
  /\ [][(TopPc = "refetch" /\ Len(stack') = Len(stack))
        => (/\ stack' = SetTop(stack, [Top EXCEPT !.pc = "uploop", !.i = 1,
                                         !.links = web[Top.url].links])
            /\ rows' = rows)]_vars
  /\ [][TopPc = "uploop"
        => /\ rows' = rows
           /\ IF Top.i <= Len(Top.links)
                THEN stack' = Append(SetTop(stack, [Top EXCEPT !.i = Top.i + 1]),
                                     Frame(Top.links[Top.i], Top.recursive_depth - 1, FALSE))
                ELSE stack' = SetTop(stack, [Top EXCEPT !.pc = "update"])]_vars
  /\ [][TopPc = "update"
        => /\ stack' = Pop(stack)
           /\ \E k \in RowsOf(rows, Top.url) :
                /\ rows' = [rows EXCEPT ![k].depth = Top.recursive_depth]
                /\ rows[k].depth < Top.recursive_depth]_vars
  /\ [][\A f \in Frames : f.pc \in UpgradePcs
          => Cardinality(RowsOf(rows', f.url)) = Cardinality(RowsOf(rows, f.url))]_vars
  /\ [](\A j, k \in 1..Len(stack) :
          (j < k /\ stack[j].pc \in UpgradePcs /\ stack[k].url = stack[j].url)
          => stack[k].pc \in {"enter"} \cup UpgradePcs)

\* the second call, with budget 1, of a URL stored with depth 0 has returned:
\* its row has depth 1 and the pages it links to have been stored
C17_Witness ==
  /\ ~Running /\ ncalls = 2 /\ ~args.allow_dupes
  /\ args.depth = <<0>> /\ args.recursive_depth = 1
  /\ Cardinality(RowsOf(rows, args.url)) = 1
  /\ StoredDepth(rows, args.url) = 1
  /\ DbLen(rows) > args.len

OtherFrames == {other[k] : k \in 1..Len(other)}

\* C19 (a): no step of two interleaved crawls, duplicates not allowed, makes a
\* second row for a URL
C19_NoDuplicateInsert ==
  [][((\A f \in Frames \cup OtherFrames : ~f.allow_dupes) /\ UniqueUrls(rows))
     => UniqueUrls(rows')]_vars

\* C19 (b): no step of two interleaved crawls lowers the depth of a row, so no
\* depth upgrade is overwritten by a smaller one
C19_NoLostUpgrade ==
  [][\A k \in 1..Len(rows) : rows'[k].depth >= rows[k].depth]_vars

\* C19: the duplicate check, the depth read and the insert or depth upgrade
\* that follows them act as one critical section: two crawls that interleave
\* on one store never make two rows for a URL and never lose a depth upgrade.
C19_AtomicCheckThenAct == C19_NoDuplicateInsert /\ C19_NoLostUpgrade

(***************************************************************************)
(* Termination of the crawl.                                               *)
(***************************************************************************)
\* C20: every top-level call of add_url returns, whatever the link graph
\* (cycles and self-links included), the budget and the rows stored before the
\* call, when every statement that is reached is eventually executed; every
\* nested invocation has a budget strictly smaller than its caller's, and no
\* budget is below the smallest budget a top-level call was ever given, so the
\* nesting is bounded.
C20_Terminates ==
  /\ [](\A k \in 1..(Len(stack) - 1) :
          stack[k + 1].recursive_depth < stack[k].recursive_depth)
  /\ [](\A f \in Frames : f.recursive_depth >= 0 - MaxNegBudget)
  /\ [](\A k \in 1..Len(rows) : rows[k].depth >= 0 - MaxNegBudget)
  /\ (Running ~> ~Running)

\* the call, with the largest budget, of a page of a cycle that was stored
\* with a negative depth has returned after storing pages its page links to
C20_Witness ==
  /\ ~Running /\ ncalls = MaxCalls
  /\ args.depth # <<>> /\ args.depth[1] < 0
  /\ args.recursive_depth = MaxBudget
  /\ \E u \in Range(web[args.url].links) : args.url \in Range(web[u].links)
  /\ StoredDepth(rows, args.url) = MaxBudget
  /\ DbLen(rows) > args.len

(***************************************************************************)
(* A further property of find_articles.                                    *)
(***************************************************************************)
\* a call of find_articles without keywords_text is at the execution of a
\* query the index rejects
Stuck == fa.pc = "execute" /\ ~fa.keywords_text /\ Rejects(fa.query)

\* C21: find_articles returns only from an execution of a query the index
\* accepts, with the rows of that query; a call with keywords_text None whose
\* query the index rejects executes the same query again and again: every
\* step leaves it at the execution of that query, no keyword extraction is
\* started, and it neither returns nor raises.
C21_RetryWithoutRecovery ==
  /\ [][(fa.pc # "returned" /\ fa'.pc = "returned")
        => (/\ fa.pc = "execute" /\ ~Rejects(fa.query)
            /\ fa'.query = fa.query
            /\ fa'.ret = Search(idx, fa.query, Limit))]_vars
  /\ [][Stuck
        => (/\ fa' = fa \/ fa' = [fa EXCEPT !.executions = fa.executions + 1]
            /\ ek' = ek /\ rg' = rg /\ rs' = rs)]_vars
  /\ [](Stuck => ek.pc # "llm")

\* find_articles('CSCI-070') has executed the rejected query twice and is
\* about to execute it again
C21_Witness ==
  /\ Stuck /\ fa.caller = "top"
  /\ fa.executions = 2
====
